---- MODULE Spec2Model ----
(***************************************************************************)
(* Software transactional memory of CS453-2019-project (tm.cpp).           *)
(*                                                                         *)
(* One region, a root segment and segments allocated by transactions.     *)
(* Every segment carries a std::shared_mutex, which libstdc++ implements   *)
(* over pthread_rwlock_t: try_lock is pthread_rwlock_trywrlock,            *)
(* try_lock_shared is pthread_rwlock_tryrdlock, and both unlock and        *)
(* unlock_shared are pthread_rwlock_unlock.                                *)
(*                                                                         *)
(* Memory is modelled in words of one alignment unit.  Slot s of the       *)
(* address space holds the segment whose base is Base(s); slot 0 is the    *)
(* root segment.  Each transaction runs on a thread of its own and every   *)
(* API call is one step in Spec and SpecSeen; in SpecSteps the calls that   *)
(* scan region->segments take one step per segment.                        *)
(***************************************************************************)
EXTENDS Integers, Sequences, FiniteSets, TLC

NTx == 2        \* transactions begun in one run
NSlots == 1     \* address slots available to tm_alloc
MaxWords == 1   \* largest segment, read and write, in words
MaxOps == 3     \* read/write/alloc/free calls per transaction

Tx == 1 .. NTx
Slot == 0 .. NSlots
RootSlot == 0
\* one address past the last slot lies in no segment, whatever is allocated
Addr == 0 .. ((NSlots + 1) * MaxWords)
Sizes == 1 .. MaxWords

\* The words a transaction stores: its own number, so that a word tells who wrote it.
WriteVal(t) == t
Val == 0 .. NTx
NoVal == 0 - 1

Base(s) == s * MaxWords
\* The alignment given to tm_create: one word.
Align == 1
\* The null pointer, which is no address.
Null == 0 - 1
Range(a, n) == a .. (a + n - 1)

VARIABLES
    region,     \* region->start, region->size, region->align
    mem,        \* the words of the address space (0 where no segment lives)
    segments,   \* region->segments, a vector of segment slots
    seg,        \* per slot: live, size, freed (struct segment)
    lock,       \* per slot: the segment's shared_mutex
    tx,         \* per transaction: struct transaction and its life cycle
    ops,        \* calls made by each transaction
    scan,       \* per transaction: where its call stands in region->segments
    ret,        \* the call that just returned and what it returned
    uaf,        \* a lock of a destroyed segment was unlocked
    watch,      \* whether the bookkeeping below is kept in this run
    snap,       \* per transaction: the memory when it began, pending writes undone
    snapSegs,   \* per transaction: the segments alive since it began
    dirty,      \* per transaction: words written by transactions that committed meanwhile
    wlast,      \* per transaction: the last word it wrote at each address
    rext,       \* per transaction: <<address, word>> read where it had not written
    rbad,       \* per transaction: it read back something else than its own last write
    clash,      \* pairs of transactions, one of which wrote over the other's pending write
    gone,       \* segments freed by a transaction that committed
    made,       \* per slot: the segment buffers allocated there so far
    released,   \* per slot: the segment buffers released there so far
    stored      \* the addresses written since their segment was created

prog == <<region, mem, segments, seg, lock, tx, uaf>>
seen == <<snap, snapSegs, dirty, wlast, rext, rbad, clash, gone, made, released, stored>>
vars == <<region, mem, segments, seg, lock, tx, ops, scan, ret, uaf, watch,
          snap, snapSegs, dirty, wlast, rext, rbad, clash, gone, made, released,
          stored>>

----------------------------------------------------------------------------
(* Data structures *)

NoSeg == [live |-> FALSE, size |-> 0, freed |-> FALSE]

\* A transaction that is in no loop over region->segments.
NoScan == [op |-> "none", a |-> 0, n |-> 0, pos |-> 0, stop |-> 0, view |-> <<>>]
FreeLock == [w |-> 0, r |-> 0, bad |-> FALSE]

\* struct transaction, before tm_begin and after delete
NoTx(st) ==
    [status |-> st, is_ro |-> FALSE, logs |-> <<>>, to_free |-> <<>>,
     to_free_locks |-> <<>>, new_segments |-> <<>>, new_seg_locks |-> <<>>,
     locks |-> <<>>, read_locks |-> <<>>]

Active(t) == tx[t].status = "active"

SeqSet(q) == {q[i] : i \in 1 .. Len(q)}

\* The program state a handler works on, as one record.
Cur == [region |-> region, mem |-> mem, segments |-> segments, seg |-> seg,
        lock |-> lock, tx |-> tx, uaf |-> uaf]

Install(st) ==
    /\ region' = st.region
    /\ mem' = st.mem
    /\ segments' = st.segments
    /\ seg' = st.seg
    /\ lock' = st.lock
    /\ tx' = st.tx
    /\ uaf' = st.uaf

----------------------------------------------------------------------------
(* std::shared_mutex over pthread_rwlock_t *)

\* A lock() in the place of try_lock: it returns only once the lock is free.
CanLockWaiting(lk, got) ==
    IF lk.bad THEN got \in BOOLEAN ELSE got /\ lk.w = 0 /\ lk.r = 0
\* try_lock succeeds when there is neither a writer nor a reader; a lock whose
\* reader count was driven below zero answers anything.
CanLock(lk, got) == IF lk.bad THEN got \in BOOLEAN ELSE got = (lk.w = 0 /\ lk.r = 0)
\* A try_lock_shared that also refuses when readers hold the lock.
CanLockSharedAlone(lk, got) ==
    IF lk.bad THEN got \in BOOLEAN ELSE got = (lk.w = 0 /\ lk.r = 0)

CanLockShared(lk, got) == IF lk.bad THEN got \in BOOLEAN ELSE got = (lk.w = 0)

LockedBy(lk, t) == IF lk.bad THEN lk ELSE [lk EXCEPT !.w = t]
LockedShared(lk) == IF lk.bad THEN lk ELSE [lk EXCEPT !.r = @ + 1]

\* pthread_rwlock_unlock by thread t: a write unlock when t is the writer,
\* otherwise one reader less; with no reader left the count underflows.
UnlockL(lk, t) ==
    IF lk.bad THEN lk
    ELSE IF lk.w = t THEN [lk EXCEPT !.w = 0]
    ELSE IF lk.w = 0 /\ lk.r > 0 THEN [lk EXCEPT !.r = @ - 1]
    ELSE [lk EXCEPT !.bad = TRUE]

\* for (auto lock : list) lock->unlock();
RECURSIVE UnlockAll(_, _, _)
UnlockAll(st, q, t) ==
    IF q = <<>> THEN st
    ELSE LET s == Head(q)
             st1 == IF st.seg[s].live
                    THEN [st EXCEPT !.lock[s] = UnlockL(@, t)]
                    ELSE [st EXCEPT !.uaf = TRUE]
         IN  UnlockAll(st1, Tail(q), t)

----------------------------------------------------------------------------
(* Helper functions *)

Contains(st, s, a) == a >= Base(s) /\ a < Base(s) + st.seg[s].size

\* The scans of region->segments in tm_read and tm_write: index of the first
\* segment that contains the address, 0 when there is none.
RECURSIVE Locate(_, _, _)
Locate(st, a, i) ==
    IF i > Len(st.segments) THEN 0
    ELSE IF Contains(st, st.segments[i], a) THEN i
    ELSE Locate(st, a, i + 1)

\* The scan of tm_free: the first segment whose base is the address.
RECURSIVE LocateBase(_, _, _)
LocateBase(st, a, i) ==
    IF i > Len(st.segments) THEN 0
    ELSE IF a = Base(st.segments[i]) THEN i
    ELSE LocateBase(st, a, i + 1)

\* vector::erase at position i of a vector of len elements kept in storage buf:
\* the tail moves down one place and the storage keeps its old last element.
EraseAt(buf, len, i) ==
    [k \in 1 .. Len(buf) |-> IF k >= i /\ k < len THEN buf[k + 1] ELSE buf[k]]

\* The inner loop of free_segments over the iterators taken at its start: len is
\* the current length of the vector, stop the end iterator the loop began with.
RECURSIVE EraseScan(_, _, _, _, _)
EraseScan(buf, len, stop, i, target) ==
    IF i > stop THEN SubSeq(buf, 1, len)
    ELSE IF buf[i] = target /\ i <= len
         THEN EraseScan(EraseAt(buf, len, i), len - 1, stop, i + 1, target)
         ELSE EraseScan(buf, len, stop, i + 1, target)

RECURSIVE free_segments(_, _)
free_segments(st, to_free) ==
    IF to_free = <<>> THEN st
    ELSE LET s == Head(to_free)
             found == s \in SeqSet(st.segments)
             vec == EraseScan(st.segments, Len(st.segments), Len(st.segments), 1, s)
             st1 == IF found
                    THEN [st EXCEPT !.segments = vec,
                                    !.seg[s] = NoSeg,
                                    !.lock[s] = FreeLock,
                                    !.mem = [a \in Addr |->
                                               IF Contains(st, s, a) THEN 0 ELSE st.mem[a]]]
                    ELSE st
         IN  free_segments(st1, Tail(to_free))

\* memcpy(change->location, change->old_data, change->size)
Restore(m, change) ==
    [a \in Addr |->
        IF a \in Range(change.location, change.size)
        THEN change.old_data[a - change.location + 1]
        ELSE m[a]]

RECURSIVE Replay(_, _)
Replay(m, logs) ==
    IF logs = <<>> THEN m ELSE Replay(Restore(m, Head(logs)), Tail(logs))

RECURSIVE ClearFreed(_, _)
ClearFreed(sg, q) ==
    IF q = <<>> THEN sg
    ELSE ClearFreed([sg EXCEPT ![Head(q)].freed = FALSE], Tail(q))

\* A rollback that leaves the segments the transaction allocated in the region.
rollback_keeping(st, t) ==
    LET trans == st.tx[t]
        st1 == IF trans.is_ro THEN st
               ELSE LET a == [st EXCEPT !.mem = Replay(@, trans.logs)]
                        b == [a EXCEPT !.seg = ClearFreed(@, trans.to_free)]
                        d == UnlockAll(b, trans.locks, t)
                    IN  UnlockAll(d, trans.to_free_locks, t)
        st2 == UnlockAll(st1, trans.read_locks, t)
    IN  [st2 EXCEPT !.tx[t] = NoTx("aborted")]

rollback(st, t) ==
    LET trans == st.tx[t]
        st1 == IF trans.is_ro THEN st
               ELSE LET a == [st EXCEPT !.mem = Replay(@, trans.logs)]
                        b == [a EXCEPT !.seg = ClearFreed(@, trans.to_free)]
                        c == free_segments(b, trans.new_segments)
                        d == UnlockAll(c, trans.locks, t)
                    IN  UnlockAll(d, trans.to_free_locks, t)
        st2 == UnlockAll(st1, trans.read_locks, t)
    IN  [st2 EXCEPT !.tx[t] = NoTx("aborted")]

\* A check_lock that forgets the locks of the segments the caller allocated.
check_lock_partial(st, t, s) ==
    \/ s \in SeqSet(st.tx[t].locks)
    \/ s \in SeqSet(st.tx[t].read_locks)
    \/ s \in SeqSet(st.tx[t].to_free_locks)

check_lock(st, t, s) ==
    \/ s \in SeqSet(st.tx[t].locks)
    \/ s \in SeqSet(st.tx[t].read_locks)
    \/ s \in SeqSet(st.tx[t].new_seg_locks)
    \/ s \in SeqSet(st.tx[t].to_free_locks)

----------------------------------------------------------------------------
(* The handlers, as functions of the program state.  Each yields the state *)
(* after the call, what the call returned and the words it delivered.      *)

Result(st, ok, data) == [st |-> st, ok |-> ok, data |-> data]

Words(m, a, n) == [k \in 1 .. n |-> m[a + k - 1]]

\* A tm_read that copies from an address it found in no segment.
tm_read_unchecked(st, t, source, size, got) ==
    LET i == Locate(st, source, 1)
        s == st.segments[i]
        held == check_lock(st, t, s)
        st1 == IF held THEN st
               ELSE [st EXCEPT !.lock[s] = LockedShared(@),
                               !.tx[t].read_locks = Append(@, s)]
    IN  IF i = 0 THEN Result(st, TRUE, Words(st.mem, source, size))
        ELSE IF ~held /\ ~got THEN Result(rollback(st, t), FALSE, <<>>)
        ELSE IF st1.seg[s].freed THEN Result(rollback(st1, t), FALSE, <<>>)
        ELSE Result(st1, TRUE, Words(st1.mem, source, size))

\* tm_read; got is the answer of try_lock_shared when it is asked.
tm_read(st, t, source, size, got) ==
    LET i == Locate(st, source, 1)
        s == st.segments[i]
        held == check_lock(st, t, s)
        st1 == IF held THEN st
               ELSE [st EXCEPT !.lock[s] = LockedShared(@),
                               !.tx[t].read_locks = Append(@, s)]
    IN  IF i = 0 THEN Result(rollback(st, t), FALSE, <<>>)
        ELSE IF ~held /\ ~got THEN Result(rollback(st, t), FALSE, <<>>)
        ELSE IF st1.seg[s].freed THEN Result(rollback(st1, t), FALSE, <<>>)
        ELSE Result(st1, TRUE, Words(st1.mem, source, size))

\* A tm_write that returns false without rollback when it cannot take the lock.
tm_write_returning(st, t, val, size, target, got, oom) ==
    LET i == Locate(st, target, 1)
        s == st.segments[i]
        held == check_lock(st, t, s)
        st1 == IF held THEN st
               ELSE [st EXCEPT !.lock[s] = LockedBy(@, t),
                               !.tx[t].locks = Append(@, s)]
        change == [size |-> size, location |-> target,
                   old_data |-> Words(st1.mem, target, size)]
        st2 == [st1 EXCEPT
                  !.tx[t].logs = <<change>> \o @,
                  !.mem = [a \in Addr |->
                             IF a \in Range(target, size) THEN val ELSE st1.mem[a]]]
    IN  IF i = 0 THEN Result(rollback(st, t), FALSE, <<>>)
        ELSE IF ~held /\ ~got THEN Result(st, FALSE, <<>>)
        ELSE IF st1.seg[s].freed THEN Result(rollback(st1, t), FALSE, <<>>)
        ELSE IF oom THEN Result(rollback(st1, t), FALSE, <<>>)
        ELSE Result(st2, TRUE, <<>>)

\* A tm_write that does not look at the tombstone.
tm_write_careless(st, t, val, size, target, got, oom) ==
    LET i == Locate(st, target, 1)
        s == st.segments[i]
        held == check_lock(st, t, s)
        st1 == IF held THEN st
               ELSE [st EXCEPT !.lock[s] = LockedBy(@, t),
                               !.tx[t].locks = Append(@, s)]
        change == [size |-> size, location |-> target,
                   old_data |-> Words(st1.mem, target, size)]
        st2 == [st1 EXCEPT
                  !.tx[t].logs = <<change>> \o @,
                  !.mem = [a \in Addr |->
                             IF a \in Range(target, size) THEN val ELSE st1.mem[a]]]
    IN  IF i = 0 THEN Result(rollback(st, t), FALSE, <<>>)
        ELSE IF ~held /\ ~got THEN Result(rollback(st, t), FALSE, <<>>)
        ELSE IF oom THEN Result(rollback(st1, t), FALSE, <<>>)
        ELSE Result(st2, TRUE, <<>>)

\* A tm_write that puts the new record at the end of the log.
tm_write_appending(st, t, val, size, target, got, oom) ==
    LET i == Locate(st, target, 1)
        s == st.segments[i]
        held == check_lock(st, t, s)
        st1 == IF held THEN st
               ELSE [st EXCEPT !.lock[s] = LockedBy(@, t),
                               !.tx[t].locks = Append(@, s)]
        change == [size |-> size, location |-> target,
                   old_data |-> Words(st1.mem, target, size)]
        st2 == [st1 EXCEPT
                  !.tx[t].logs = @ \o <<change>>,
                  !.mem = [a \in Addr |->
                             IF a \in Range(target, size) THEN val ELSE st1.mem[a]]]
    IN  IF i = 0 THEN Result(rollback(st, t), FALSE, <<>>)
        ELSE IF ~held /\ ~got THEN Result(rollback(st, t), FALSE, <<>>)
        ELSE IF st1.seg[s].freed THEN Result(rollback(st1, t), FALSE, <<>>)
        ELSE IF oom THEN Result(rollback(st1, t), FALSE, <<>>)
        ELSE Result(st2, TRUE, <<>>)

\* tm_write; got is the answer of try_lock when it is asked, oom whether the
\* allocation of the log record or of its old_data fails.
tm_write(st, t, val, size, target, got, oom) ==
    LET i == Locate(st, target, 1)
        s == st.segments[i]
        held == check_lock(st, t, s)
        st1 == IF held THEN st
               ELSE [st EXCEPT !.lock[s] = LockedBy(@, t),
                               !.tx[t].locks = Append(@, s)]
        change == [size |-> size, location |-> target,
                   old_data |-> Words(st1.mem, target, size)]
        st2 == [st1 EXCEPT
                  !.tx[t].logs = <<change>> \o @,
                  !.mem = [a \in Addr |->
                             IF a \in Range(target, size) THEN val ELSE st1.mem[a]]]
    IN  IF i = 0 THEN Result(rollback(st, t), FALSE, <<>>)
        ELSE IF ~held /\ ~got THEN Result(rollback(st, t), FALSE, <<>>)
        ELSE IF st1.seg[s].freed THEN Result(rollback(st1, t), FALSE, <<>>)
        ELSE IF oom THEN Result(rollback(st1, t), FALSE, <<>>)
        ELSE Result(st2, TRUE, <<>>)

\* A tm_alloc that treats a failed allocation as tm_write does: it aborts.
tm_alloc_aborting(st, t, size, s, oom) ==
    LET st1 == [st EXCEPT
                  !.mem = [a \in Addr |->
                             IF a \in Range(Base(s), size) THEN 0 ELSE st.mem[a]],
                  !.seg[s] = [live |-> TRUE, size |-> size, freed |-> FALSE],
                  !.lock[s] = [w |-> t, r |-> 0, bad |-> FALSE],
                  !.tx[t].new_seg_locks = Append(@, s),
                  !.tx[t].new_segments = Append(@, s),
                  !.segments = Append(@, s)]
    IN  IF oom THEN Result(rollback(st, t), "nomem", <<>>)
        ELSE Result(st1, "success", <<Base(s)>>)

\* A tm_alloc that does not take the lock of the new segment.
tm_alloc_unlocked(st, t, size, s, oom) ==
    LET st1 == [st EXCEPT
                  !.mem = [a \in Addr |->
                             IF a \in Range(Base(s), size) THEN 0 ELSE st.mem[a]],
                  !.seg[s] = [live |-> TRUE, size |-> size, freed |-> FALSE],
                  !.lock[s] = FreeLock,
                  !.tx[t].new_seg_locks = Append(@, s),
                  !.tx[t].new_segments = Append(@, s),
                  !.segments = Append(@, s)]
    IN  IF oom THEN Result(st, "nomem", <<>>)
        ELSE Result(st1, "success", <<Base(s)>>)

\* A tm_alloc that does not enter the new segment in region->segments.
tm_alloc_unlisted(st, t, size, s, oom) ==
    LET st1 == [st EXCEPT
                  !.mem = [a \in Addr |->
                             IF a \in Range(Base(s), size) THEN 0 ELSE st.mem[a]],
                  !.seg[s] = [live |-> TRUE, size |-> size, freed |-> FALSE],
                  !.lock[s] = [w |-> t, r |-> 0, bad |-> FALSE],
                  !.tx[t].new_seg_locks = Append(@, s),
                  !.tx[t].new_segments = Append(@, s)]
    IN  IF oom THEN Result(st, "nomem", <<>>)
        ELSE Result(st1, "success", <<Base(s)>>)

\* A tm_alloc that allocates into region->start, as tm_create does.
tm_alloc_rebasing(st, t, size, s, oom) ==
    LET st1 == [st EXCEPT
                  !.region.start = Base(s),
                  !.mem = [a \in Addr |->
                             IF a \in Range(Base(s), size) THEN 0 ELSE st.mem[a]],
                  !.seg[s] = [live |-> TRUE, size |-> size, freed |-> FALSE],
                  !.lock[s] = [w |-> t, r |-> 0, bad |-> FALSE],
                  !.tx[t].new_seg_locks = Append(@, s),
                  !.tx[t].new_segments = Append(@, s),
                  !.segments = Append(@, s)]
    IN  IF oom THEN Result(st, "nomem", <<>>)
        ELSE Result(st1, "success", <<Base(s)>>)

\* A tm_alloc without the memset: the new segment holds what the allocator
\* left there, here words of the caller.
tm_alloc_unzeroed(st, t, size, s, oom) ==
    LET st1 == [st EXCEPT
                  !.mem = [a \in Addr |->
                             IF a \in Range(Base(s), size) THEN WriteVal(t) ELSE st.mem[a]],
                  !.seg[s] = [live |-> TRUE, size |-> size, freed |-> FALSE],
                  !.lock[s] = [w |-> t, r |-> 0, bad |-> FALSE],
                  !.tx[t].new_seg_locks = Append(@, s),
                  !.tx[t].new_segments = Append(@, s),
                  !.segments = Append(@, s)]
    IN  IF oom THEN Result(st, "nomem", <<>>)
        ELSE Result(st1, "success", <<Base(s)>>)

\* tm_alloc at slot s, the address posix_memalign hands out; oom when the
\* segment or its memory cannot be allocated.
tm_alloc(st, t, size, s, oom) ==
    LET st1 == [st EXCEPT
                  !.mem = [a \in Addr |->
                             IF a \in Range(Base(s), size) THEN 0 ELSE st.mem[a]],
                  !.seg[s] = [live |-> TRUE, size |-> size, freed |-> FALSE],
                  !.lock[s] = [w |-> t, r |-> 0, bad |-> FALSE],
                  !.tx[t].new_seg_locks = Append(@, s),
                  !.tx[t].new_segments = Append(@, s),
                  !.segments = Append(@, s)]
    IN  IF oom THEN Result(st, "nomem", <<>>)
        ELSE Result(st1, "success", <<Base(s)>>)

\* A tm_free that does not set the tombstone.
tm_free_unmarked(st, t, target, got) ==
    LET i == LocateBase(st, target, 1)
        s == st.segments[i]
        st1 == IF got THEN [st EXCEPT !.lock[s] = LockedBy(@, t)] ELSE st
        st2 == [st1 EXCEPT !.tx[t].to_free_locks = Append(@, s)]
    IN  IF i = 0 THEN Result(rollback(st, t), FALSE, <<>>)
        ELSE IF ~got /\ ~check_lock(st, t, s) THEN Result(rollback(st, t), FALSE, <<>>)
        ELSE Result(st2, TRUE, <<>>)

\* A tm_free that marks the first segment of the region, not the one located.
tm_free_first(st, t, target, got) ==
    LET i == LocateBase(st, target, 1)
        s == st.segments[i]
        st1 == IF got THEN [st EXCEPT !.lock[s] = LockedBy(@, t)] ELSE st
        st2 == [st1 EXCEPT !.tx[t].to_free_locks = Append(@, s),
                           !.seg[st.segments[1]].freed = TRUE]
    IN  IF i = 0 THEN Result(rollback(st, t), FALSE, <<>>)
        ELSE IF ~got /\ ~check_lock(st, t, s) THEN Result(rollback(st, t), FALSE, <<>>)
        ELSE Result(st2, TRUE, <<>>)

\* tm_free; got is the answer of try_lock.
tm_free(st, t, target, got) ==
    LET i == LocateBase(st, target, 1)
        s == st.segments[i]
        st1 == IF got THEN [st EXCEPT !.lock[s] = LockedBy(@, t)] ELSE st
        st2 == [st1 EXCEPT !.tx[t].to_free_locks = Append(@, s),
                           !.seg[s].freed = TRUE]
    IN  IF i = 0 THEN Result(rollback(st, t), FALSE, <<>>)
        ELSE IF ~got /\ ~check_lock(st, t, s) THEN Result(rollback(st, t), FALSE, <<>>)
        ELSE Result(st2, TRUE, <<>>)

\* A tm_end that refuses to commit a transaction with pending frees.
tm_end_refusing(st, t) ==
    LET trans == st.tx[t]
        st1 == UnlockAll(st, trans.read_locks, t)
        st2 == IF trans.is_ro THEN st1
               ELSE LET a == free_segments(st1, trans.to_free)
                        b == UnlockAll(a, trans.locks, t)
                    IN  UnlockAll(b, trans.new_seg_locks, t)
    IN  IF trans.to_free_locks # <<>> THEN Result(rollback(st, t), FALSE, <<>>)
        ELSE Result([st2 EXCEPT !.tx[t] = NoTx("committed")], TRUE, <<>>)

\* A tm_end that keeps the locks of the segments the transaction allocated.
tm_end_holding(st, t) ==
    LET trans == st.tx[t]
        st1 == UnlockAll(st, trans.read_locks, t)
        st2 == IF trans.is_ro THEN st1
               ELSE LET a == free_segments(st1, trans.to_free)
                    IN  UnlockAll(a, trans.locks, t)
    IN  Result([st2 EXCEPT !.tx[t] = NoTx("committed")], TRUE, <<>>)

tm_end(st, t) ==
    LET trans == st.tx[t]
        st1 == UnlockAll(st, trans.read_locks, t)
        st2 == IF trans.is_ro THEN st1
               ELSE LET a == free_segments(st1, trans.to_free)
                        b == UnlockAll(a, trans.locks, t)
                    IN  UnlockAll(b, trans.new_seg_locks, t)
    IN  Result([st2 EXCEPT !.tx[t] = NoTx("committed")], TRUE, <<>>)

tm_start(st) == st.region.start
tm_size(st) == st.region.size
tm_align(st) == st.region.align

\* tm_destroy: every segment of region->segments is released, in order, and
\* the region is deleted; the buffers it released are what it delivers.
tm_destroy(st) ==
    Result([st EXCEPT !.segments = <<>>,
                      !.seg = [s \in Slot |-> NoSeg],
                      !.lock = [s \in Slot |-> FreeLock],
                      !.mem = [a \in Addr |-> 0]],
           TRUE, st.segments)

----------------------------------------------------------------------------
(* Initial state: tm_create(MaxWords, 1) has returned. *)

ZeroMem == [a \in Addr |-> 0]
NoWrites == [a \in Addr |-> NoVal]
Ret(op, t, ok, code, a, n, data) ==
    [op |-> op, t |-> t, ok |-> ok, code |-> code, a |-> a, n |-> n, data |-> data]

tm_create ==
    /\ region = [start |-> Base(RootSlot), size |-> MaxWords, align |-> Align]
    /\ mem = ZeroMem
    /\ segments = <<RootSlot>>
    /\ seg = [s \in Slot |->
                IF s = RootSlot
                THEN [live |-> TRUE, size |-> MaxWords, freed |-> FALSE]
                ELSE NoSeg]
    /\ lock = [s \in Slot |-> FreeLock]
    /\ tx = [t \in Tx |-> NoTx("none")]
    /\ ops = [t \in Tx |-> 0]
    /\ scan = [t \in Tx |-> NoScan]
    /\ ret = Ret("create", 0, TRUE, "", 0, MaxWords, <<>>)
    /\ uaf = FALSE
    /\ snap = [t \in Tx |-> ZeroMem]
    /\ snapSegs = [t \in Tx |-> {}]
    /\ dirty = [t \in Tx |-> {}]
    /\ wlast = [t \in Tx |-> NoWrites]
    /\ rext = [t \in Tx |-> {}]
    /\ rbad = [t \in Tx |-> FALSE]
    /\ clash = {}
    /\ gone = {}
    /\ made = [s \in Slot |-> IF s = RootSlot THEN 1 ELSE 0]
    /\ released = [s \in Slot |-> 0]
    /\ stored = {}

Init == tm_create /\ watch = FALSE
InitSeen == tm_create /\ watch = TRUE

----------------------------------------------------------------------------
(* Bookkeeping of what the transactions saw and did, for the properties    *)
(* that speak of the past.  It reads the call that just returned in ret'.  *)

LiveSlots(sg) == {s \in Slot : sg[s].live}
Written(t) == {a \in Addr : wlast[t][a] # NoVal}

\* The words covered by the undo log of t.
Logged(t) == UNION {Range(tx[t].logs[i].location, tx[t].logs[i].size) :
                      i \in 1 .. Len(tx[t].logs)}

\* Memory m with the pending writes of the running transactions t, t+1, ... undone.
RECURSIVE Undone(_, _)
Undone(m, t) ==
    IF t > NTx THEN m
    ELSE Undone(IF Active(t) THEN Replay(m, tx[t].logs) ELSE m, t + 1)

Count(q, s) == Cardinality({i \in 1 .. Len(q) : q[i] = s})

\* The buffers free_segments releases, in order: free(seg->mem) runs once for
\* every element it erases.
RECURSIVE Released(_, _)
Released(st, to_free) ==
    IF to_free = <<>> THEN <<>>
    ELSE LET s == Head(to_free)
             after == free_segments(st, <<s>>)
             n == Len(st.segments) - Len(after.segments)
         IN  [k \in 1 .. n |-> s] \o Released(after, Tail(to_free))

Observe ==
    LET t == ret'.t
        began == ret'.op = "begin" /\ ret'.ok
        committed == ret'.op = "end" /\ ret'.ok
        read == IF ret'.op = "read" /\ ret'.ok THEN Range(ret'.a, ret'.n) ELSE {}
        written == IF ret'.op = "write" /\ ret'.ok THEN Range(ret'.a, ret'.n) ELSE {}
        word(a) == ret'.data[a - ret'.a + 1]
        aborted(u) == tx[u].status = "aborted"
        aborting == Active(t) /\ tx'[t].status = "aborted"
        allocated == IF ret'.op = "alloc" /\ ret'.code = "success"
                     THEN {s \in Slot : ret'.data = <<Base(s)>>} ELSE {}
        let_go == IF aborting /\ ~tx[t].is_ro THEN Released(Cur, tx[t].new_segments)
                  ELSE IF committed /\ ~tx[t].is_ro THEN Released(Cur, tx[t].to_free)
                  ELSE <<>>
    IN  IF ~watch THEN UNCHANGED seen
        ELSE
        /\ snap' = [u \in Tx |->
                      IF u = t /\ began THEN Undone(mem, 1)
                      ELSE IF Active(u) THEN snap[u] ELSE ZeroMem]
        /\ snapSegs' = [u \in Tx |->
                          IF u = t /\ began THEN LiveSlots(seg)
                          ELSE IF Active(u) THEN snapSegs[u] \cap LiveSlots(seg')
                          ELSE {}]
        /\ dirty' = [u \in Tx |->
                       IF ~Active(u) THEN {}
                       ELSE IF committed /\ u # t THEN dirty[u] \cup Written(t)
                       ELSE dirty[u]]
        /\ wlast' = [u \in Tx |->
                       IF aborted(u) THEN NoWrites
                       ELSE IF u = t
                            THEN [a \in Addr |->
                                    IF a \in written THEN WriteVal(t) ELSE wlast[u][a]]
                            ELSE wlast[u]]
        /\ rext' = [u \in Tx |->
                      IF aborted(u) THEN {}
                      ELSE IF u = t
                           THEN rext[u] \cup
                                {<<a, word(a)>> : a \in {b \in read : wlast[t][b] = NoVal}}
                           ELSE rext[u]]
        /\ rbad' = [u \in Tx |->
                      IF aborted(u) THEN FALSE
                      ELSE IF u = t
                           THEN rbad[u] \/ \E a \in read :
                                              wlast[t][a] # NoVal /\ wlast[t][a] # word(a)
                           ELSE rbad[u]]
        /\ clash' = clash \cup
                     {{t, u} : u \in {v \in Tx \ {t} :
                                       Active(v) /\ Logged(v) \cap written # {}}}
        /\ gone' = (gone \ allocated) \cup
                    (IF committed THEN SeqSet(tx[t].to_free_locks) ELSE {})
        /\ made' = [s \in Slot |-> made[s] + (IF s \in allocated THEN 1 ELSE 0)]
        /\ released' = [s \in Slot |-> released[s] + Count(let_go, s)]
        /\ stored' = (stored \ UNION {Range(Base(s), MaxWords) : s \in allocated})
                      \cup written

----------------------------------------------------------------------------
(* The API calls *)

\* tm_begin; oom when the transaction cannot be allocated.
tm_begin(st, t, is_ro, oom) ==
    IF oom THEN Result(st, FALSE, <<>>)
    ELSE Result([st EXCEPT !.tx[t] = [NoTx("active") EXCEPT !.is_ro = is_ro]], TRUE, <<>>)

\* Transactions are numbered in the order they begin.
TmBegin(t, is_ro, oom) ==
    /\ tx[t].status = "none"
    /\ \A u \in Tx : u < t => tx[u].status # "none"
    /\ LET r == tm_begin(Cur, t, is_ro, oom)
       IN  /\ Install(r.st)
           /\ ret' = Ret("begin", t, r.ok, IF r.ok THEN "" ELSE "invalid_tx", 0, 0, <<>>)
    /\ UNCHANGED <<ops, watch, scan>>
    /\ Observe

\* The least address that lies in no segment stands for all of them.
NoSegAddr == CHOOSE a \in Addr :
                /\ Locate(Cur, a, 1) = 0
                /\ \A b \in Addr : Locate(Cur, b, 1) = 0 => a <= b

\* The least address that is no segment's base stands for all of them.
NoBaseAddr == CHOOSE a \in Addr :
                 /\ LocateBase(Cur, a, 1) = 0
                 /\ \A b \in Addr : LocateBase(Cur, b, 1) = 0 => a <= b

\* The caller keeps its buffers inside the segment it addresses.
InBounds(a, n) ==
    LET i == Locate(Cur, a, 1)
    IN  IF i = 0 THEN n = 1 /\ a = NoSegAddr
        ELSE a + n <= Base(segments[i]) + seg[segments[i]].size

TmRead(t, source, size) ==
    /\ Active(t)
    /\ ops[t] < MaxOps
    /\ InBounds(source, size)
    /\ \E got \in BOOLEAN :
         /\ LET i == Locate(Cur, source, 1)
            IN  IF i # 0 /\ ~check_lock(Cur, t, segments[i])
                THEN CanLockShared(lock[segments[i]], got)
                ELSE got
         /\ LET r == tm_read(Cur, t, source, size, got)
            IN  /\ Install(r.st)
                /\ ret' = Ret("read", t, r.ok, "", source, size, r.data)
    /\ ops' = [ops EXCEPT ![t] = @ + 1]
    /\ UNCHANGED <<watch, scan>>
    /\ Observe

\* Only a read-write transaction writes, allocates and frees.
TmWrite(t, size, target, oom) ==
    /\ Active(t)
    /\ ~tx[t].is_ro
    /\ ops[t] < MaxOps
    /\ InBounds(target, size)
    /\ \E got \in BOOLEAN :
         /\ LET i == Locate(Cur, target, 1)
            IN  IF i # 0 /\ ~check_lock(Cur, t, segments[i])
                THEN CanLock(lock[segments[i]], got)
                ELSE got
         /\ LET r == tm_write(Cur, t, WriteVal(t), size, target, got, oom)
            IN  /\ Install(r.st)
                /\ ret' = Ret("write", t, r.ok, "", target, size, <<>>)
    /\ ops' = [ops EXCEPT ![t] = @ + 1]
    /\ UNCHANGED <<watch, scan>>
    /\ Observe

\* posix_memalign hands out the lowest free slot, and fails when there is none.
FreeSlots == {s \in Slot : ~seg[s].live}
FreshSlot == CHOOSE s \in FreeSlots : \A u \in FreeSlots : s <= u

TmAlloc(t, size, oom) ==
    /\ Active(t)
    /\ scan[t] = NoScan
    /\ ~tx[t].is_ro
    /\ ops[t] < MaxOps
    /\ FreeSlots = {} => oom
    /\ LET r == tm_alloc(Cur, t, size, IF oom THEN RootSlot ELSE FreshSlot, oom)
       IN  /\ Install(r.st)
           /\ ret' = Ret("alloc", t, TRUE, r.ok, 0, size, r.data)
    /\ ops' = [ops EXCEPT ![t] = @ + 1]
    /\ UNCHANGED <<watch, scan>>
    /\ Observe

TmFree(t, target) ==
    /\ Active(t)
    /\ ~tx[t].is_ro
    /\ ops[t] < MaxOps
    /\ LocateBase(Cur, target, 1) = 0 => target = NoBaseAddr
    /\ \E got \in BOOLEAN :
         /\ LET i == LocateBase(Cur, target, 1)
            IN  IF i # 0 THEN CanLock(lock[segments[i]], got) ELSE got
         /\ LET r == tm_free(Cur, t, target, got)
            IN  /\ Install(r.st)
                /\ ret' = Ret("free", t, r.ok, "", target, 0, <<>>)
    /\ ops' = [ops EXCEPT ![t] = @ + 1]
    /\ UNCHANGED <<watch, scan>>
    /\ Observe

TmEnd(t) ==
    /\ Active(t)
    /\ scan[t] = NoScan
    /\ LET r == tm_end(Cur, t)
       IN  /\ Install(r.st)
           /\ ret' = Ret("end", t, r.ok, "", 0, 0, <<>>)
    /\ UNCHANGED <<ops, watch, scan>>
    /\ Observe

Next ==
    \/ \E t \in Tx, is_ro \in BOOLEAN, oom \in BOOLEAN : TmBegin(t, is_ro, oom)
    \/ \E t \in Tx, a \in Addr, n \in Sizes : TmRead(t, a, n)
    \/ \E t \in Tx, a \in Addr, n \in Sizes, oom \in BOOLEAN : TmWrite(t, n, a, oom)
    \/ \E t \in Tx, n \in Sizes, oom \in BOOLEAN : TmAlloc(t, n, oom)
    \/ \E t \in Tx, a \in Addr : TmFree(t, a)
    \/ \E t \in Tx : TmEnd(t)

\* The program alone.
Spec == Init /\ [][Next]_vars

\* The program with the bookkeeping of what its transactions saw and did.
SpecSeen == InitSeen /\ [][Next]_vars

----------------------------------------------------------------------------
(* The calls of tm_read, tm_write and tm_free taken one segment at a time: *)
(* the loop over region->segments runs between the iterators it took when  *)
(* it began, while other threads push to the vector and erase from it.     *)

ScanOps == {"read", "write", "free"}

\* The loop begins: for (auto seg : region->segments) takes begin() and end().
ScanStart(t, op, a, n) ==
    /\ Active(t)
    /\ scan[t] = NoScan
    /\ ops[t] < MaxOps
    /\ op # "read" => ~tx[t].is_ro
    /\ IF op = "free" THEN LocateBase(Cur, a, 1) = 0 => a = NoBaseAddr
       ELSE InBounds(a, n)
    /\ scan' = [scan EXCEPT ![t] = [op |-> op, a |-> a, n |-> n, pos |-> 1,
                                    stop |-> Len(segments), view |-> segments]]
    /\ ops' = [ops EXCEPT ![t] = @ + 1]
    /\ UNCHANGED <<prog, ret, watch, seen>>

\* What the loop may find at its position: the element that was there when the
\* loop began, or the one that is there now.
Seen(sc) ==
    {sc.view[sc.pos]} \cup
    (IF sc.pos <= Len(segments) THEN {segments[sc.pos]} ELSE {})

\* The test of the loop body on segment e.
Hits(sc, e) == IF sc.op = "free" THEN sc.a = Base(e) ELSE Contains(Cur, e, sc.a)

\* The segment looked at is not the one; the loop goes on.
ScanPass(t) ==
    /\ scan[t] # NoScan
    /\ scan[t].pos <= scan[t].stop
    /\ \E e \in Seen(scan[t]) : seg[e].live /\ ~Hits(scan[t], e)
    /\ scan' = [scan EXCEPT ![t].pos = @ + 1]
    /\ UNCHANGED <<prog, ops, ret, watch, seen>>

\* The element looked at points to a segment that was deleted meanwhile: the
\* test reads released memory, and either fails, so that the loop goes on, or
\* leads into a body that cannot take the lock and rolls back.
ScanStale(t, abort) ==
    /\ scan[t] # NoScan
    /\ scan[t].pos <= scan[t].stop
    /\ \E e \in Seen(scan[t]) : ~seg[e].live
    /\ IF abort
       THEN /\ Install([rollback(Cur, t) EXCEPT !.uaf = TRUE])
            /\ ret' = Ret(scan[t].op, t, FALSE, "", scan[t].a,
                          IF scan[t].op = "free" THEN 0 ELSE scan[t].n, <<>>)
            /\ scan' = [scan EXCEPT ![t] = NoScan]
            /\ UNCHANGED <<ops, watch>>
            /\ Observe
       ELSE /\ uaf' = TRUE
            /\ scan' = [scan EXCEPT ![t].pos = @ + 1]
            /\ UNCHANGED <<region, mem, segments, seg, lock, tx, ops, ret, watch, seen>>

\* The segment looked at is the one: the body of the loop runs and returns.
ScanHit(t, oom) ==
    /\ scan[t] # NoScan
    /\ scan[t].pos <= scan[t].stop
    /\ LET sc == scan[t]
       IN  \E e \in Seen(sc) : \E got \in BOOLEAN :
             /\ seg[e].live
             /\ Hits(sc, e)
             /\ sc.op # "write" => ~oom
             /\ IF sc.op = "free" THEN CanLock(lock[e], got)
                ELSE IF check_lock(Cur, t, e) THEN got
                ELSE IF sc.op = "read" THEN CanLockShared(lock[e], got)
                ELSE CanLock(lock[e], got)
             /\ LET r == IF sc.op = "read" THEN tm_read(Cur, t, sc.a, sc.n, got)
                         ELSE IF sc.op = "write"
                              THEN tm_write(Cur, t, WriteVal(t), sc.n, sc.a, got, oom)
                         ELSE tm_free(Cur, t, sc.a, got)
                IN  /\ Install(r.st)
                    /\ ret' = Ret(sc.op, t, r.ok, "", sc.a,
                                  IF sc.op = "free" THEN 0 ELSE sc.n, r.data)
    /\ scan' = [scan EXCEPT ![t] = NoScan]
    /\ UNCHANGED <<ops, watch>>
    /\ Observe

\* The loop came to the end it began with: address not found, rollback.
ScanMiss(t) ==
    /\ scan[t] # NoScan
    /\ scan[t].pos > scan[t].stop
    /\ Install(rollback(Cur, t))
    /\ ret' = Ret(scan[t].op, t, FALSE, "", scan[t].a,
                  IF scan[t].op = "free" THEN 0 ELSE scan[t].n, <<>>)
    /\ scan' = [scan EXCEPT ![t] = NoScan]
    /\ UNCHANGED <<ops, watch>>
    /\ Observe

NextSteps ==
    \/ \E t \in Tx, is_ro \in BOOLEAN, oom \in BOOLEAN : TmBegin(t, is_ro, oom)
    \/ \E t \in Tx, op \in ScanOps, a \in Addr, n \in Sizes : ScanStart(t, op, a, n)
    \/ \E t \in Tx : ScanPass(t)
    \/ \E t \in Tx, abort \in BOOLEAN : ScanStale(t, abort)
    \/ \E t \in Tx, oom \in BOOLEAN : ScanHit(t, oom)
    \/ \E t \in Tx : ScanMiss(t)
    \/ \E t \in Tx, n \in Sizes, oom \in BOOLEAN : TmAlloc(t, n, oom)
    \/ \E t \in Tx : TmEnd(t)

\* The program with its threads interleaved inside the loops over the segments.
SpecSteps == Init /\ [][NextSteps]_vars

----------------------------------------------------------------------------
(* Properties *)

\* The call that just returned was an aborting one.
Failed == ret.op \in {"read", "write", "free"} /\ ~ret.ok

\* The transaction that stored word v (0 is what tm_create and tm_alloc store).
Writer(v) == v

SegRange(s) == Range(Base(s), seg[s].size)

\* C1 - Isolation: a tm_read that returns true never delivers a word stored by
\* another transaction that had not committed when the read was made.
C1_Isolation ==
    (ret.op = "read" /\ ret.ok) =>
        \A i \in 1 .. ret.n :
            LET v == ret.data[i]
            IN  v = 0 \/ Writer(v) = ret.t \/ tx[Writer(v)].status = "committed"

\* C2 - Commit exclusivity: of two transactions that wrote overlapping words,
\* one writing while the write of the other was still pending, at most one commits.
C2_CommitExclusivity ==
    \A p \in clash : \E t \in p : tx[t].status # "committed"

\* C3 - Abort leaves no trace: when the rollback of a transaction has finished,
\* every word of every segment that has existed since it began holds the word it
\* held then (pending writes of others set aside), unless a transaction that
\* committed meanwhile wrote it or a transaction still running has it in its
\* undo log.
C3_AbortLeavesNoTrace ==
    Failed =>
        \A s \in snapSegs[ret.t] : \A a \in SegRange(s) :
            \/ mem[a] = snap[ret.t][a]
            \/ a \in dirty[ret.t]
            \/ \E u \in Tx : Active(u) /\ a \in Logged(u)

\* C4 - Committed writes are final: when tm_end returns, every word the
\* transaction wrote holds what its last tm_write there stored.
C4_CommittedWritesFinal ==
    (ret.op = "end" /\ ret.ok) =>
        \A a \in Written(ret.t) : mem[a] = wlast[ret.t][a]

\* C5 - Read-after-write: a successful tm_read delivers, at every word the
\* transaction wrote before, what its last tm_write there stored.
C5_ReadAfterWrite ==
    (ret.op = "read" /\ ret.ok) =>
        \A a \in Range(ret.a, ret.n) \cap Written(ret.t) :
            ret.data[a - ret.a + 1] = wlast[ret.t][a]

Committed == {t \in Tx : tx[t].status = "committed"}
Quiet == \A t \in Tx : ~Active(t)
Orders(S) == {q \in [1 .. Cardinality(S) -> S] :
                \A i, j \in 1 .. Cardinality(S) : q[i] = q[j] => i = j}

\* The transactions of q run one at a time from memory m: <<the memory they
\* leave>>, or <<>> when one of them could not have read what it read.
RECURSIVE Serial(_, _, _)
Serial(q, i, m) ==
    IF i > Len(q) THEN <<m>>
    ELSE LET t == q[i]
         IN  IF rbad[t] \/ \E p \in rext[t] : m[p[1]] # p[2] THEN <<>>
             ELSE Serial(q, i + 1,
                         [a \in Addr |-> IF wlast[t][a] # NoVal THEN wlast[t][a] ELSE m[a]])

\* C6 - Serializability: some order of the committed transactions, run one at a
\* time, gives every one of them the words it read and, once no transaction
\* runs, leaves the region as it is.
C6_Serializable ==
    \E q \in Orders(Committed) :
        LET out == Serial(q, 1, ZeroMem)
        IN  /\ out # <<>>
            /\ Quiet => \A s \in LiveSlots(seg) : \A a \in SegRange(s) : mem[a] = out[1][a]

\* Another running transaction has the lock of segment s in one of its lists.
HeldByOther(t, s) == \E u \in Tx \ {t} : Active(u) /\ check_lock(Cur, u, s)

\* C7 - Write contention aborts: a tm_write on a segment whose lock another
\* running transaction holds, shared or exclusive, returns false, the caller is
\* rolled back and the words of the segment stay as they were.
C7_WriteContentionAborts ==
    [][ LET t == ret'.t
            i == Locate(Cur, ret'.a, 1)
        IN  (ret'.op = "write" /\ i # 0 /\ HeldByOther(t, segments[i]))
            => /\ ~ret'.ok
               /\ tx'[t].status = "aborted"
               /\ \A a \in SegRange(segments[i]) : mem'[a] = mem[a] ]_vars

\* C8 - Readers coexist, writers exclude readers: a tm_read on a segment that is
\* not tombstoned and whose lock the caller has in none of its lists returns
\* true exactly when no other running transaction is the writer of the lock.
C8_ReadersCoexist ==
    [][ LET t == ret'.t
            i == Locate(Cur, ret'.a, 1)
            s == segments[i]
        IN  (ret'.op = "read" /\ i # 0 /\ ~seg[s].freed /\ ~check_lock(Cur, t, s))
            => (ret'.ok <=> ~\E u \in Tx \ {t} : Active(u) /\ lock[s].w = u) ]_vars

\* A first read of the root segment succeeded while another running
\* transaction holds its lock shared.
C8_Witness ==
    /\ ret.op = "read" /\ ret.ok /\ ops[ret.t] = 1
    /\ \E u \in Tx \ {ret.t} : Active(u) /\ RootSlot \in SeqSet(tx[u].read_locks)
    /\ lock[RootSlot].r = 2

\* C9 - tm_end always commits: every running transaction can call tm_end, and
\* tm_end returns true and leaves the transaction committed.
C9_TmEndCommits ==
    /\ \A t \in Tx : Active(t) => ENABLED TmEnd(t)
    /\ ret.op = "end" => (ret.ok /\ tx[ret.t].status = "committed")

\* A read-write transaction that wrote the root segment and freed a segment
\* committed while another transaction was running.
C9_Witness ==
    /\ ret.op = "end" /\ ret.ok
    /\ mem[Base(RootSlot)] = WriteVal(ret.t)
    /\ \E s \in Slot : seg[s].freed
    /\ \E u \in Tx : Active(u)

\* C10 - nomem changes nothing: a tm_alloc that returns nomem leaves the locks,
\* undo log, pending allocations and frees of the transaction, the segments of
\* the region and all their words as they were, and the transaction running.
C10_NomemChangesNothing ==
    [][ (ret'.op = "alloc" /\ ret'.code = "nomem")
        => /\ UNCHANGED prog
           /\ ret'.ok
           /\ tx'[ret'.t].status = "active" ]_vars

\* nomem came back to a transaction that holds an undo log and a lock.
C10_Witness ==
    /\ ret.op = "alloc" /\ ret.code = "nomem"
    /\ tx[ret.t].logs # <<>>
    /\ tx[ret.t].locks # <<>>

\* The program state after the step.
CurNext == [region |-> region', mem |-> mem', segments |-> segments', seg |-> seg',
            lock |-> lock', tx |-> tx', uaf |-> uaf']

\* Sequence q without its elements in S.
Without(q, S) == LET keep(s) == s \notin S IN SelectSeq(q, keep)

\* C11 - Aborted allocation disappears: the abort of a transaction removes from
\* the region exactly the segments it allocated, every other segment stays in
\* place, and a tm_read or tm_write of any other transaction at an address of a
\* removed segment finds no segment and returns false.
C11_AbortedAllocationDisappears ==
    [][ \A t \in Tx :
          (Active(t) /\ tx'[t].status = "aborted") =>
            LET mine == SeqSet(tx[t].new_segments)
            IN  /\ segments' = Without(segments, mine)
                /\ \A s \in Slot \ mine : seg'[s].live = seg[s].live
                /\ \A s \in mine : \A a \in SegRange(s) : \A u \in Tx \ {t} :
                      /\ ~seg'[s].live
                      /\ Locate(CurNext, a, 1) = 0
                      /\ ~tm_read(CurNext, u, a, 1, TRUE).ok
                      /\ ~tm_write(CurNext, u, WriteVal(u), 1, a, TRUE, FALSE).ok ]_vars

\* A transaction allocated a segment and aborted, and a read by another
\* transaction at the address of that segment has just returned false.
C11_Witness ==
    /\ \E s \in Slot \ {RootSlot} :
          /\ made[s] = 1 /\ released[s] = 1 /\ ~seg[s].live
          /\ ret.op = "read" /\ ~ret.ok /\ ret.a = Base(s)
    /\ \E u \in Tx \ {ret.t} : tx[u].status = "aborted"

\* C12 - Committed allocation persists: when a transaction commits, every
\* segment it allocated and did not free is still in the region, not tombstoned
\* and with its lock free, its words are what the transaction wrote last (0
\* where it wrote nothing), and a tm_read of another transaction there takes
\* the lock and delivers those words.
C12_CommittedAllocationPersists ==
    [][ \A t \in Tx :
          (Active(t) /\ tx'[t].status = "committed") =>
            \A s \in SeqSet(tx[t].new_segments) :
              ~seg[s].freed =>
                /\ Count(segments', s) = 1
                /\ seg'[s] = [live |-> TRUE, size |-> seg[s].size, freed |-> FALSE]
                /\ lock'[s] = FreeLock
                /\ CanLockShared(lock'[s], TRUE) /\ ~CanLockShared(lock'[s], FALSE)
                /\ \A a \in SegRange(s) : \A u \in Tx \ {t} :
                      LET r == tm_read(CurNext, u, a, 1, TRUE)
                      IN  /\ mem'[a] = (IF wlast[t][a] # NoVal THEN wlast[t][a] ELSE 0)
                          /\ r.ok
                          /\ r.data = <<mem'[a]>> ]_vars

\* A transaction read, from a segment that is not the root, the word that the
\* transaction which allocated the segment wrote there before it committed.
C12_Witness ==
    /\ ret.op = "read" /\ ret.ok /\ ret.a # Base(RootSlot)
    /\ made[1] = 1 /\ ret.a = Base(1)
    /\ \E u \in Tx \ {ret.t} : ret.data = <<WriteVal(u)>> /\ tx[u].status = "committed"

\* The addresses of slot s, whatever the size of the segment there.
SlotRange(s) == Range(Base(s), MaxWords)

\* C13 - Committed free is permanent: once a transaction that freed a segment
\* has committed, every tm_read and tm_write at an address of that segment
\* returns false and aborts its transaction.
C13_CommittedFreePermanent ==
    [][ (ret'.op \in {"read", "write"} /\ \E s \in gone : ret'.a \in SlotRange(s))
        => (~ret'.ok /\ tx'[ret'.t].status = "aborted") ]_vars

\* A read of a segment failed after the transaction that had read and freed the
\* segment committed; the lock of the segment is free.
C13_Witness ==
    /\ ret.op = "read" /\ ~ret.ok
    /\ \E s \in gone : ret.a = Base(s) /\ lock[s] = FreeLock /\ seg[s].live

\* The segments, other than the root, that transaction t freed with success.
Freed(t) == SeqSet(tx[t].to_free_locks) \ {RootSlot}

\* C14 - Commit physically deletes freed segments: when a transaction commits,
\* no segment it freed is in the region any more, and a lookup of any of its
\* addresses finds no segment.
C14_CommitDeletesFreed ==
    [][ \A t \in Tx :
          (Active(t) /\ tx'[t].status = "committed") =>
            \A s \in Freed(t) :
              /\ Count(segments', s) = 0
              /\ \A a \in SegRange(s) : Locate(CurNext, a, 1) = 0 ]_vars

\* C15 - Aborted free is undone: when a transaction aborts, every segment it
\* freed and had not allocated itself is still in the region, is not
\* tombstoned and is not locked by the transaction.
C15_AbortedFreeUndone ==
    [][ \A t \in Tx :
          (Active(t) /\ tx'[t].status = "aborted") =>
            \A s \in Freed(t) \ SeqSet(tx[t].new_segments) :
              /\ Count(segments', s) = 1
              /\ ~seg'[s].freed
              /\ lock'[s].w # t ]_vars

\* The segment the call that returns in this step addressed: its index in
\* region->segments, 0 when it addressed none.
Target ==
    IF ret'.op = "free" THEN LocateBase(Cur, ret'.a, 1)
    ELSE IF ret'.op \in {"read", "write"} THEN Locate(Cur, ret'.a, 1)
    ELSE 0

\* Segment s was allocated by a running transaction other than t.
PendingOfOther(t, s) ==
    \E u \in Tx \ {t} : Active(u) /\ s \in SeqSet(tx[u].new_segments)

\* C16 - Uncommitted allocations are invisible: a tm_read, tm_write or tm_free
\* on a segment allocated by another transaction that is still running returns
\* false and aborts the caller.
C16_PendingAllocInvisible ==
    [][ (Target # 0 /\ PendingOfOther(ret'.t, segments[Target]))
        => (~ret'.ok /\ tx'[ret'.t].status = "aborted") ]_vars

\* A tm_write on a segment allocated by another running transaction has just
\* returned false.
C16_Witness ==
    /\ ret.op = "write" /\ ~ret.ok
    /\ \E s \in Slot \ {RootSlot} :
          /\ ret.a = Base(s)
          /\ \E u \in Tx \ {ret.t} : Active(u) /\ s \in SeqSet(tx[u].new_segments)

\* The transaction has been destroyed, by tm_end or by rollback.
Destroyed(t) == tx[t].status \in {"committed", "aborted"}

\* C17 - Failure is fatal and handled exactly once: a tm_read, tm_write or
\* tm_free that returns false leaves its transaction rolled back and destroyed,
\* one that returns true and a tm_alloc leave it running, tm_end leaves it
\* committed, every call is made on a running transaction and changes the life
\* cycle of no other, and a destroyed transaction is never touched again.
C17_FailureFatalOnce ==
    [][ LET t == ret'.t
        IN  /\ ret'.op \in {"read", "write", "free", "alloc", "end"} => Active(t)
            /\ ret'.op \in {"read", "write", "free"} =>
                  tx'[t].status = (IF ret'.ok THEN "active" ELSE "aborted")
            /\ ret'.op = "alloc" => (ret'.ok /\ tx'[t].status = "active")
            /\ ret'.op = "end" => tx'[t].status = "committed"
            /\ \A u \in Tx \ {t} : tx'[u].status = tx[u].status
            /\ \A u \in Tx : Destroyed(u) => tx'[u] = tx[u] ]_vars

\* Both transactions are destroyed, one by a tm_free that returned false and
\* one by tm_end.
C17_Witness ==
    /\ ret.op = "free" /\ ~ret.ok /\ tx[ret.t].status = "aborted"
    /\ \E u \in Tx \ {ret.t} : tx[u].status = "committed"

\* C18 - Deadlock freedom: in every reachable state every call that a client may
\* make can complete at once, whatever locks the other transactions hold:
\* tm_begin, and for a running transaction tm_end, tm_read, and for a
\* read-write one tm_write, tm_alloc and tm_free.
C18_DeadlockFree ==
    \A t \in Tx :
      /\ (tx[t].status = "none" /\ \A u \in Tx : u < t => tx[u].status # "none")
            => \A is_ro \in BOOLEAN : ENABLED TmBegin(t, is_ro, FALSE)
      /\ Active(t) => ENABLED TmEnd(t)
      /\ (Active(t) /\ ops[t] < MaxOps) =>
            \A a \in Addr, n \in Sizes : InBounds(a, n) => ENABLED TmRead(t, a, n)
      /\ (Active(t) /\ ops[t] < MaxOps /\ ~tx[t].is_ro) =>
            /\ \A a \in Addr, n \in Sizes :
                  InBounds(a, n) => ENABLED TmWrite(t, n, a, FALSE)
            /\ \A n \in Sizes : ENABLED TmAlloc(t, n, FreeSlots = {})
            /\ \A a \in Addr :
                  (LocateBase(Cur, a, 1) = 0 => a = NoBaseAddr) => ENABLED TmFree(t, a)

\* A read-write transaction that holds no lock of the root segment can call
\* tm_write and tm_free on it while another running transaction is the writer
\* of its lock.
C18_Witness ==
    \E t \in Tx : \E u \in Tx \ {t} :
      /\ Active(t) /\ ~tx[t].is_ro /\ ops[t] < MaxOps
      /\ Active(u) /\ lock[RootSlot].w = u
      /\ ~check_lock(Cur, t, RootSlot)
      /\ ENABLED TmWrite(t, 1, Base(RootSlot), FALSE)
      /\ ENABLED TmFree(t, Base(RootSlot))

\* C19 - No leak and no double release of segments: at every moment, of the
\* buffers allocated at a slot all but the ones released are in the region's
\* collection, which holds a slot at most once and exactly the live segments;
\* with no transaction running, tm_destroy releases each remaining buffer once.
C19_NoLeakNoDoubleRelease ==
    \A s \in Slot :
      /\ released[s] <= made[s]
      /\ made[s] - released[s] = Count(segments, s)
      /\ Count(segments, s) <= 1
      /\ seg[s].live <=> Count(segments, s) = 1
      /\ Quiet => made[s] - released[s] = Count(tm_destroy(Cur).data, s)

\* No transaction runs; a buffer allocated by an aborted transaction was
\* released, the buffer allocated next at the same address by a transaction
\* that committed is in the region.
C19_Witness ==
    /\ Quiet
    /\ \E s \in Slot \ {RootSlot} :
          made[s] = 2 /\ released[s] = 1 /\ Count(segments, s) = 1
    /\ \E t, u \in Tx : tx[t].status = "aborted" /\ tx[u].status = "committed"

\* C20 - The region queries are value-stable: in every reachable state tm_start
\* returns the base of the root segment, which is not null, tm_size the size
\* and tm_align the alignment given to tm_create.
C20_QueriesStable ==
    /\ tm_start(Cur) = Base(RootSlot)
    /\ tm_start(Cur) # Null
    /\ tm_size(Cur) = MaxWords
    /\ tm_align(Cur) = Align

\* The queries answer as at creation after one transaction aborted and another
\* allocated a segment, wrote the root segment and committed.
C20_Witness ==
    /\ \E t, u \in Tx : tx[t].status = "aborted" /\ tx[u].status = "committed"
    /\ Len(segments) = 2
    /\ mem[Base(RootSlot)] # 0
    /\ tm_start(Cur) = Base(RootSlot) /\ tm_size(Cur) = MaxWords /\ tm_align(Cur) = Align

C22_TombstonedUnusable ==
    [][ (ret'.op \in {"read", "write"} /\ Target # 0 /\ seg[segments[Target]].freed)
        => (~ret'.ok /\ tx'[ret'.t].status = "aborted") ]_vars

\* A tm_write on a tombstoned segment returned false with no other transaction
\* running and the lock of the segment free.
C22_Witness ==
    /\ ret.op = "write" /\ ~ret.ok
    /\ \A u \in Tx : ~Active(u)
    /\ \E s \in Slot : /\ seg[s].live /\ seg[s].freed /\ ret.a \in SegRange(s)
                         /\ lock[s] = FreeLock

\* C23 - Fresh segments read as zero: every word of a segment, the root or an
\* allocated one, that no tm_write has stored to since the segment was created
\* holds 0, and a tm_read that returns true delivers 0 for it.
C23_FreshReadsZero ==
    /\ \A s \in Slot : seg[s].live =>
          \A a \in SegRange(s) : a \notin stored => mem[a] = 0
    /\ (ret.op = "read" /\ ret.ok) =>
          \A a \in Range(ret.a, ret.n) : a \notin stored => ret.data[a - ret.a + 1] = 0

\* The transaction that allocated a segment at an address where an earlier
\* segment had been allocated and released read 0 there.
C23_Witness ==
    /\ ret.op = "read" /\ ret.ok /\ ret.data = <<0>>
    /\ \E s \in Slot \ {RootSlot} :
          /\ ret.a = Base(s) /\ made[s] = 2 /\ released[s] = 1
          /\ s \in SeqSet(tx[ret.t].new_segments)
          /\ ret.a \notin stored

\* Transaction t is the writer of the lock of segment s.
HoldsExclusive(lk, t) == ~lk.bad /\ lk.w = t

\* C24 - Lock discipline for mutation: a step that changes a word of a segment
\* or its tombstone is a call of a transaction that is the writer of the
\* segment's lock, before the call or after it.
C24_MutationUnderExclusiveLock ==
    [][ \A s \in Slot :
          (/\ seg[s].live /\ seg'[s].live
           /\ \/ seg'[s].freed # seg[s].freed
              \/ \E a \in SegRange(s) : mem'[a] # mem[a])
          => (HoldsExclusive(lock[s], ret'.t) \/ HoldsExclusive(lock'[s], ret'.t)) ]_vars

\* The locks transaction t has recorded as held exclusively.
ExclusiveSets(t) ==
    SeqSet(tx[t].locks) \cup SeqSet(tx[t].to_free_locks) \cup SeqSet(tx[t].new_seg_locks)

\* C25 - Exclusive holders are unique: a lock in the exclusive sets of a running
\* transaction is in no lock set of any other running transaction.
C25_ExclusiveHoldersUnique ==
    \A t \in Tx : \A u \in Tx \ {t} :
      (Active(t) /\ Active(u)) =>
        \A s \in ExclusiveSets(t) : ~check_lock(Cur, u, s)

\* Transaction t has the lock of segment s in read_locks and in no other list.
HoldsSharedOnly(t, s) ==
    /\ s \in SeqSet(tx[t].read_locks)
    /\ s \notin ExclusiveSets(t)

\* C26 - No lock promotion: a tm_write on a segment the caller holds only in
\* shared mode returns false, aborts the caller and leaves the words of the
\* segment as they were.
C26_NoLockPromotion ==
    [][ LET t == ret'.t
            s == segments[Target]
        IN  (ret'.op = "write" /\ Target # 0 /\ HoldsSharedOnly(t, s)) =>
              /\ ~ret'.ok
              /\ tx'[t].status = "aborted"
              /\ \A a \in SegRange(s) : mem'[a] = mem[a] ]_vars

\* Whether a call of kind op on the located segment s calls try_lock or
\* try_lock_shared: tm_read and tm_write do when check_lock answers false,
\* tm_free does first thing after the scan.
TriesLock(op, st, t, s) ==
    IF op = "free" THEN TRUE ELSE ~check_lock(st, t, s)

\* C27 - Self-deadlock avoidance ordering: a tm_read, tm_write or tm_free on a
\* segment whose lock the caller already has in one of its lists makes no
\* try-acquire on that lock, and a successful one leaves the lock as it was;
\* stated for the segments tm_alloc made, which are the ones tm_free is for.
C27_CheckBeforeTryAcquire ==
    [][ LET t == ret'.t
            s == segments[Target]
        IN  (Target # 0 /\ s # RootSlot /\ check_lock(Cur, t, s)) =>
              /\ ~TriesLock(ret'.op, Cur, t, s)
              /\ ret'.ok => lock'[s] = lock[s] ]_vars

\* The four lock lists of transaction t, one after the other.
LockLists(t) ==
    tx[t].read_locks \o tx[t].locks \o tx[t].to_free_locks \o tx[t].new_seg_locks

\* C28 - Each lock is recorded at most once: the lock lists of a running
\* transaction hold no lock twice, in one list or in two; stated for the
\* segments tm_alloc made, which are the ones tm_free is for.
C28_LockRecordedOnce ==
    \A t \in Tx : Active(t) =>
      \A i \in DOMAIN LockLists(t) : \A j \in DOMAIN LockLists(t) :
        (LockLists(t)[i] = LockLists(t)[j] /\ LockLists(t)[i] # RootSlot) => i = j

\* The running transactions that have segment s pending for release.
PendingFree(s) == {t \in Tx : Active(t) /\ s \in SeqSet(tx[t].to_free_locks)}

\* C29 - Tombstone matches pending frees: an allocated segment is tombstoned
\* exactly when one running transaction has it pending for release, so none is
\* tombstoned when no transaction runs.
C29_TombstoneIffPendingFree ==
    \A s \in Slot \ {RootSlot} : seg[s].live =>
      (seg[s].freed <=> Cardinality(PendingFree(s)) = 1)

\* C30 as stated - The root segment cannot be freed, whatever addresses tm_free
\* is given: it stays in the region, is never tombstoned and is pending for
\* release in no transaction.
C30_RootNeverFreed ==
    /\ RootSlot \in SeqSet(segments)
    /\ ~seg[RootSlot].freed
    /\ \A t \in Tx : RootSlot \notin SeqSet(tx[t].to_free_locks) \cup SeqSet(tx[t].to_free)

\* C30 - The root segment is freed by no call but a tm_free of its own address,
\* which the caller is told not to make: every other call leaves it in the
\* region, not tombstoned and pending for release in no transaction.
C30_RootFreedOnlyOnRequest ==
    [][ (C30_RootNeverFreed /\ ~(ret'.op = "free" /\ ret'.a = Base(RootSlot)))
        => C30_RootNeverFreed' ]_vars

\* A transaction wrote the root, freed the segment it had allocated and
\* committed, and the root is as it was created but for the word written.
C30_Witness ==
    /\ ret.op = "end" /\ ret.ok
    /\ \E s \in Slot \ {RootSlot} : seg[s].live /\ seg[s].freed
    /\ mem[Base(RootSlot)] # 0
    /\ C30_RootNeverFreed

\* C32 - Releases match holds: no release by tm_end or rollback finds the lock
\* without the hold it gives up (a second release, or the release of a hold
\* that was never taken), and no lock of a destroyed segment is unlocked;
\* stated for the segments tm_alloc made.
C32_ReleasesMatchHolds ==
    /\ ~uaf
    /\ \A s \in Slot \ {RootSlot} : ~lock[s].bad

\* C33 - No lock outlives its transaction: the writer of the lock of a segment
\* of the region is a running transaction, and with no transaction running
\* every such lock is free; stated for the segments tm_alloc made.
C33_NoLockOutlivesTransaction ==
    \A s \in Slot \ {RootSlot} : (seg[s].live /\ ~lock[s].bad) =>
      /\ lock[s].w # 0 => Active(lock[s].w)
      /\ (\A t \in Tx : ~Active(t)) => lock[s] = FreeLock

\* C35 - Undo log shape: a successful tm_write puts one record in front of the
\* caller's log, with the target, the size and the words the target held just
\* before; no other call changes the log of a transaction that keeps running;
\* and replaying the log front to back gives the same memory after the write
\* as before it, the words before the earliest write.
C35_UndoLogShape ==
    [][ LET t == ret'.t
            wrote == ret'.op = "write" /\ ret'.ok
            change == [size |-> ret'.n, location |-> ret'.a,
                       old_data |-> Words(mem, ret'.a, ret'.n)]
        IN  /\ wrote =>
                /\ tx'[t].logs = <<change>> \o tx[t].logs
                /\ Replay(mem', tx'[t].logs) = Replay(mem, tx[t].logs)
            /\ \A u \in Tx :
                  (Active(u) /\ tx'[u].status = "active" /\ ~(wrote /\ u = t))
                  => tx'[u].logs = tx[u].logs ]_vars

\* A transaction wrote the same word twice: the record in front holds its own
\* first write, the one behind it the word from before.
C35_Witness ==
    /\ ret.op = "write" /\ ret.ok
    /\ Len(tx[ret.t].logs) = 2
    /\ tx[ret.t].logs[1].location = tx[ret.t].logs[2].location
    /\ tx[ret.t].logs[1].old_data = <<WriteVal(ret.t)>>
    /\ tx[ret.t].logs[2].old_data = <<0>>

\* Transaction t allocated segment s or took its lock for an earlier write.
OwnHold(t, s) == s \in SeqSet(tx[t].new_seg_locks) \cup SeqSet(tx[t].locks)

\* The call with result r left the locks and the lock lists of t as they were.
SameLocks(r, t) ==
    /\ r.st.lock = lock
    /\ r.st.tx[t].locks = tx[t].locks
    /\ r.st.tx[t].read_locks = tx[t].read_locks
    /\ r.st.tx[t].new_seg_locks = tx[t].new_seg_locks
    /\ r.st.tx[t].to_free_locks = tx[t].to_free_locks

\* What a tm_read and a tm_write of transaction t at address a come to, when
\* the undo record can be allocated (oom FALSE) or cannot.
Usable(t, a, oom) ==
    \A got \in BOOLEAN :
      LET r == tm_read(Cur, t, a, 1, got)
          w == tm_write(Cur, t, WriteVal(t), 1, a, got, oom)
      IN  r.ok /\ SameLocks(r, t) /\ w.ok /\ SameLocks(w, t)

\* The addresses of the segments t holds as OwnHold says, tombstoned ones left out.
OwnAddrs(t) ==
    {a \in Addr : LET i == Locate(Cur, a, 1)
                  IN  i # 0 /\ OwnHold(t, segments[i]) /\ ~seg[segments[i]].freed}

\* C36 as stated - A transaction can use what it already holds: a tm_read or
\* tm_write on a segment it allocated or wrote before, not tombstoned, returns
\* true, whatever else happens.
C36_HeldSegmentAlwaysUsable ==
    \A t \in Tx : (Active(t) /\ ~tx[t].is_ro) =>
      \A a \in OwnAddrs(t) : \A oom \in BOOLEAN : Usable(t, a, oom)

\* C36 - A transaction can use what it already holds: a tm_read or tm_write on
\* a segment it allocated or wrote before, not tombstoned, returns true
\* whatever try_lock would answer, and leaves every lock and lock list as it
\* was, unless the tm_write cannot allocate its undo record.
C36_HeldSegmentUsable ==
    \A t \in Tx : (Active(t) /\ ~tx[t].is_ro) =>
      \A a \in OwnAddrs(t) : Usable(t, a, FALSE)

\* A transaction wrote into the segment it had allocated, while the other one
\* holds the first segment.
C36_Witness ==
    /\ ret.op = "write" /\ ret.ok
    /\ \E s \in Slot \ {RootSlot} :
         /\ ret.a = Base(s)
         /\ s \in SeqSet(tx[ret.t].new_seg_locks)
         /\ s \notin SeqSet(tx[ret.t].locks)
         /\ mem[ret.a] = WriteVal(ret.t)
    /\ \E u \in Tx \ {ret.t} : Active(u) /\ lock[RootSlot].w = u

\* The program state after each part of rollback, in the order of its
\* statements: on entry, after the undo records are copied back, after the
\* tombstones of to_free are cleared, after free_segments(new_segments), after
\* the unlocks of locks, of to_free_locks and of read_locks.
rollback_stages(st, t) ==
    LET trans == st.tx[t]
        a == IF trans.is_ro THEN st ELSE [st EXCEPT !.mem = Replay(@, trans.logs)]
        b == IF trans.is_ro THEN a ELSE [a EXCEPT !.seg = ClearFreed(@, trans.to_free)]
        c == IF trans.is_ro THEN b ELSE free_segments(b, trans.new_segments)
        d == IF trans.is_ro THEN c ELSE UnlockAll(c, trans.locks, t)
        e == IF trans.is_ro THEN d ELSE UnlockAll(d, trans.to_free_locks, t)
        f == UnlockAll(e, trans.read_locks, t)
    IN  <<st, a, b, c, d, e, f>>

\* What rollback has done when it comes to its first unlock, and that the
\* shared holds are the last it gives up.
RestoredBeforeRelease(st, t) ==
    LET trans == st.tx[t]
        g == rollback_stages(st, t)
        c == g[4]
        exclusive == SeqSet(trans.locks) \cup SeqSet(trans.to_free_locks)
    IN  /\ rollback(st, t) = [g[7] EXCEPT !.tx[t] = NoTx("aborted")]
        /\ c.mem = Replay(st.mem, trans.logs)
        /\ \A s \in SeqSet(trans.to_free_locks) \ {RootSlot} :
              c.seg[s].live => ~c.seg[s].freed
        /\ \A s \in SeqSet(trans.new_segments) : s \notin SeqSet(c.segments)
        /\ \A s \in Slot : c.seg[s].live => c.lock[s] = st.lock[s]
        /\ \A s \in SeqSet(trans.read_locks) \ exclusive :
              g[6].seg[s].live => g[6].lock[s] = st.lock[s]

\* C34 - Rollback restores before it releases: when a call rolls its
\* transaction back, every undo record has been applied, every tombstone the
\* transaction set on a segment tm_alloc made has been cleared and every segment
\* it allocated has been removed before the first lock is released, and the
\* shared holds are released after the exclusive ones.
C34_RestoreBeforeRelease ==
    [][ LET t == ret'.t
        IN  (t \in Tx /\ Active(t) /\ tx'[t].status = "aborted"
             /\ CurNext = rollback(Cur, t))
            => RestoredBeforeRelease(Cur, t) ]_vars

\* C31 - Lookups are safe against structural changes: no call pushes a segment
\* to region->segments or erases one from it while another thread is in the
\* middle of its loop over that vector.
C31_NoChangeDuringScan ==
    [][ segments' # segments => \A u \in Tx \ {ret'.t} : scan[u] = NoScan ]_vars

====
